---- MODULE Spec2Model ----
(***************************************************************************)
(* The Game component of src/src/Game.tsx as a state machine: the React    *)
(* state (rows, cols, winSeq, mode, history, stepNumber, isPlayerXTurn),   *)
(* the values every render derives from it (winner, isBoardFull), the      *)
(* pending computer-move timeout of the effect, and one action per event   *)
(* handler and per timer callback.                                         *)
(***************************************************************************)
EXTENDS Integers, Sequences, FiniteSets, TLC

VARIABLES
    rows,           \* Game.tsx:77  useState(numRows)
    cols,           \* Game.tsx:78  useState(numCols)
    winSeq,         \* Game.tsx:79  useState(winCondition)
    mode,           \* Game.tsx:82  "single" | "multi"
    history,        \* Game.tsx:85  sequence of boards (HistoryEntry.squares)
    stepNumber,     \* Game.tsx:88  0-based index into history
    isPlayerXTurn,  \* Game.tsx:89
    winner,         \* Game.tsx:93  value derived by the last render
    isBoardFull,    \* Game.tsx:92  value derived by the last render
    timer,          \* Game.tsx:159 TRUE while a setTimeout of the effect is pending
    mounted,        \* FALSE once a render has thrown and React has unmounted the Game
    lastOp          \* observation: the handler or callback that last updated the game

vars == <<rows, cols, winSeq, mode, history, stepNumber, isPlayerXTurn,
          winner, isBoardFull, timer, mounted, lastOp>>

----
\* Bounds of the model.

\* Longest history (number of entries) the model lets the game grow to.
MaxHistory == 5

\* Longest history in the long single-player games (a win by X and a move
\* after it take 7 entries on the default board).
MaxLongHistory == 7

\* The step of the move list that the long games jump back to.
LongJumpSteps == {1}

\* Longest win length the winner detector is tried with on arbitrary boards.
MaxWinLength == 3

\* The squares the user clicks, among those the Board renders.
ClickCells == {0, 1, 2}

\* A square further down the grid that the user also clicks.
FarCells == {4}

\* Values typed into the Rows, Columns and Winning Sequence fields.
RowVals == {1, 3}
ColVals == {2, 3}
WinVals == {2, 3}

\* Values typed into the Rows field, a negative number among them.
RowValsSigned == {-1, 3}

\* Grid shapes <<numRows, numCols>> the winner detector is tried with on
\* arbitrary boards.
WinnerShapes == {<<2, 2>>, <<2, 3>>, <<3, 2>>, <<3, 3>>}

----
\* Program constants.

DEFAULT_NUM_ROWS == 3
DEFAULT_NUM_COLS == 3
DEFAULT_WIN_CONDITION == 3

\* JavaScript null (an empty cell) and undefined (an array hole, or a read
\* past the end of the array).
Null == "null"
Undefined == "undefined"

Marks == {"X", "O"}

----
\* Arrays are 0-based in the source and 1-based sequences here.

\* squares[i]
Get(squares, i) ==
    IF i >= 0 /\ i < Len(squares) THEN squares[i + 1] ELSE Undefined

\* squares[i] = v  (an index past the end grows the array, leaving holes)
SetSquare(squares, i, v) ==
    IF i < Len(squares)
    THEN [squares EXCEPT ![i + 1] = v]
    ELSE squares \o [k \in 1..(i - Len(squares)) |-> Undefined] \o <<v>>

\* Array(n).fill(null)
EmptyBoard(n) == [k \in 1..n |-> Null]

\* JavaScript truthiness of a cell value.
Truthy(v) == v \in Marks

----
\* Game logic helper functions.

RECURSIVE checkDirectionFrom(_, _, _, _, _, _, _, _, _, _)
checkDirectionFrom(offset, squares, row, col, dRow, dCol, winCondition, numRows, numCols, player) ==
    IF ~(offset < winCondition) THEN TRUE
    ELSE LET currentRow == row + offset * dRow
             currentCol == col + offset * dCol
         IN  IF \/ currentRow < 0
                \/ currentRow >= numRows
                \/ currentCol < 0
                \/ currentCol >= numCols
             THEN FALSE
             ELSE IF Get(squares, currentRow * numCols + currentCol) # player
             THEN FALSE
             ELSE checkDirectionFrom(offset + 1, squares, row, col, dRow, dCol,
                                     winCondition, numRows, numCols, player)

\* checkDirection without the test of the column against the grid: a line
\* runs on across the end of a row.
checkDirectionWrap(squares, row, col, dRow, dCol, winCondition, numRows, numCols, player) ==
    \A offset \in 0..(winCondition - 1) :
        /\ row + offset * dRow >= 0
        /\ row + offset * dRow < numRows
        /\ Get(squares, (row + offset * dRow) * numCols + col + offset * dCol) = player

\* checkDirection stopping one cell short of winCondition.
checkDirectionOneShort(squares, row, col, dRow, dCol, winCondition, numRows, numCols, player) ==
    checkDirectionFrom(0, squares, row, col, dRow, dCol, winCondition - 1,
                       numRows, numCols, player)

\* checkDirection finding no line that runs to the left.
checkDirectionNoLeft(squares, row, col, dRow, dCol, winCondition, numRows, numCols, player) ==
    /\ dCol >= 0
    /\ checkDirectionFrom(0, squares, row, col, dRow, dCol, winCondition,
                          numRows, numCols, player)

checkDirection(squares, row, col, dRow, dCol, winCondition, numRows, numCols, player) ==
    checkDirectionFrom(0, squares, row, col, dRow, dCol, winCondition,
                       numRows, numCols, player)

RECURSIVE calculateWinnerFrom(_, _, _, _, _, _)
calculateWinnerFrom(row, col, squares, numRows, numCols, winCondition) ==
    IF ~(row < numRows) THEN Null
    ELSE IF ~(col < numCols)
    THEN calculateWinnerFrom(row + 1, 0, squares, numRows, numCols, winCondition)
    ELSE LET player == Get(squares, row * numCols + col)
         IN  IF ~Truthy(player)
             THEN calculateWinnerFrom(row, col + 1, squares, numRows, numCols,
                                      winCondition)
             ELSE IF \/ checkDirection(squares, row, col, 0, 1, winCondition,
                                       numRows, numCols, player)
                     \/ checkDirection(squares, row, col, 1, 0, winCondition,
                                       numRows, numCols, player)
                     \/ checkDirection(squares, row, col, 1, 1, winCondition,
                                       numRows, numCols, player)
                     \/ checkDirection(squares, row, col, 1, -1, winCondition,
                                       numRows, numCols, player)
             THEN player
             ELSE calculateWinnerFrom(row, col + 1, squares, numRows, numCols,
                                      winCondition)

calculateWinner(squares, numRows, numCols, winCondition) ==
    calculateWinnerFrom(0, 0, squares, numRows, numCols, winCondition)

\* current.squares.every(cell => cell !== null): every() skips holes.
BoardFull(squares) ==
    \A k \in 1..Len(squares) : squares[k] # Null

----
\* Values derived on every render.

current == history[stepNumber + 1]

currentPlayer == IF isPlayerXTurn THEN "X" ELSE "O"

\* The messages of validationErrors, in the order they are pushed.
validationErrors ==
    (IF rows < 3 THEN <<"Rows must be at least 3.">> ELSE <<>>)
    \o (IF cols < 3 THEN <<"Columns must be at least 3.">> ELSE <<>>)
    \o (IF winSeq < 3 THEN <<"Winning sequence must be at least 3.">> ELSE <<>>)
    \o (IF winSeq > rows \/ winSeq > cols
        THEN <<"Winning sequence cannot exceed board dimensions.">> ELSE <<>>)

\* The text of the status line, as the message and the mark it names.
status ==
    IF Truthy(winner) THEN <<"Winner: ", winner>>
    ELSE IF isBoardFull THEN <<"It's a tie!">>
    ELSE IF mode = "single"
    THEN (IF isPlayerXTurn THEN <<"Your turn (X)">> ELSE <<"Computer's turn (O)">>)
    ELSE <<"Next player: ", currentPlayer>>

\* The squares the Board component renders, each with onClick(index).
RenderedSquares == 0..(rows * cols - 1)

\* The effect's condition with the test of the turn inverted.
EffectConditionOnXTurn ==
    /\ mode = "single"
    /\ isPlayerXTurn
    /\ ~Truthy(winner)
    /\ ~isBoardFull

\* The condition under which the effect schedules the computer's move.
EffectCondition ==
    /\ mode = "single"
    /\ ~isPlayerXTurn
    /\ ~Truthy(winner)
    /\ ~isBoardFull

\* The dependency array of the effect.
EffectDeps == <<mode, isPlayerXTurn, winner, isBoardFull>>

\* The render with an effect that returns no cleanup: a timeout that is
\* pending stays pending when the dependencies change.
RenderNoCleanup(fired) ==
    IF stepNumber' >= 0 /\ stepNumber' < Len(history')
    THEN /\ winner' = calculateWinner(history'[stepNumber' + 1], rows', cols', winSeq')
         /\ isBoardFull' = BoardFull(history'[stepNumber' + 1])
         /\ timer' = IF EffectDeps' # EffectDeps
                     THEN (EffectCondition' \/ (timer /\ ~fired))
                     ELSE (timer /\ ~fired)
         /\ mounted' = TRUE
    ELSE /\ UNCHANGED <<winner, isBoardFull>>
         /\ timer' = FALSE
         /\ mounted' = FALSE

\* The render that follows a state update.  history[stepNumber] is read
\* first: when stepNumber is no index of history it is undefined, reading
\* its squares throws, and React unmounts the component (running the
\* effect's cleanup).  Otherwise the derived values are computed from the
\* new state, and the effect runs again (clearing the timeout it set, then
\* setting a new one if its condition holds) exactly when one of its
\* dependencies changed.  fired says the pending timeout has just run.
Render(fired) ==
    IF stepNumber' >= 0 /\ stepNumber' < Len(history')
    THEN /\ winner' = calculateWinner(history'[stepNumber' + 1], rows', cols', winSeq')
         /\ isBoardFull' = BoardFull(history'[stepNumber' + 1])
         /\ timer' = IF EffectDeps' # EffectDeps
                     THEN EffectCondition'
                     ELSE (timer /\ ~fired)
         /\ mounted' = TRUE
    ELSE /\ UNCHANGED <<winner, isBoardFull>>
         /\ timer' = FALSE
         /\ mounted' = FALSE

\* What lastOp records: the handler or callback that last updated the game
\* state, whether it added a board to the history, and the number of history
\* entries it discarded.
Op(name, added, dropped) == [op |-> name, added |-> added, dropped |-> dropped]

\* A handler that returns without updating any state: nothing renders.
NoUpdate == UNCHANGED vars

----
\* Event handlers.

\* Array(rows * cols) throws a RangeError when rows * cols is negative.
resetThrows == rows * cols < 0

\* The three state updates of resetGame; none is reached when building the
\* board throws.
resetGame ==
    IF resetThrows
    THEN UNCHANGED <<history, stepNumber, isPlayerXTurn>>
    ELSE /\ history' = <<EmptyBoard(rows * cols)>>
         /\ stepNumber' = 0
         /\ isPlayerXTurn' = TRUE

\* applyConfiguration without the test of validationErrors.
applyConfigurationUnchecked ==
    /\ resetGame
    /\ UNCHANGED <<rows, cols, winSeq, mode>>
    /\ lastOp' = Op("applyConfiguration", FALSE, Len(history) - 1)
    /\ Render(FALSE)

applyConfiguration ==
    IF Len(validationErrors) = 0
    THEN /\ resetGame
         /\ UNCHANGED <<rows, cols, winSeq, mode>>
         /\ lastOp' = Op("applyConfiguration", FALSE, Len(history) - 1)
         /\ Render(FALSE)
    ELSE NoUpdate

\* setMode is queued before resetGame runs, so the mode changes even when
\* resetGame throws.
handleModeChange(newMode) ==
    /\ mode' = newMode
    /\ resetGame
    /\ UNCHANGED <<rows, cols, winSeq>>
    /\ lastOp' = Op("handleModeChange", FALSE,
                    IF resetThrows THEN 0 ELSE Len(history) - 1)
    /\ Render(FALSE)

\* handleClick appending to the whole history instead of history.slice(0,
\* stepNumber + 1).
handleClickNoTruncate(i) ==
    IF mode = "single" /\ ~isPlayerXTurn
    THEN NoUpdate
    ELSE IF Truthy(winner) \/ Truthy(Get(current, i))
    THEN NoUpdate
    ELSE LET squares == SetSquare(current, i, currentPlayer)
             newHistory == Append(history, squares)
         IN  /\ Len(newHistory) <= MaxHistory
             /\ history' = newHistory
             /\ stepNumber' = Len(newHistory) - 1
             /\ isPlayerXTurn' = IF mode = "single" THEN FALSE ELSE ~isPlayerXTurn
             /\ UNCHANGED <<rows, cols, winSeq, mode>>
             /\ lastOp' = Op("handleClick", TRUE, 0)
             /\ Render(FALSE)

\* handleClick, in a model that lets the history grow to maxLen entries.
handleClickUpTo(i, maxLen) ==
    IF mode = "single" /\ ~isPlayerXTurn
    THEN NoUpdate
    ELSE IF Truthy(winner) \/ Truthy(Get(current, i))
    THEN NoUpdate
    ELSE LET squares == SetSquare(current, i, currentPlayer)
             newHistory == Append(SubSeq(history, 1, stepNumber + 1), squares)
         IN  /\ Len(newHistory) <= maxLen
             /\ history' = newHistory
             /\ stepNumber' = Len(newHistory) - 1
             /\ isPlayerXTurn' = IF mode = "single" THEN FALSE ELSE ~isPlayerXTurn
             /\ UNCHANGED <<rows, cols, winSeq, mode>>
             /\ lastOp' = Op("handleClick", TRUE, Len(history) - (stepNumber + 1))
             /\ Render(FALSE)

handleClick(i) == handleClickUpTo(i, MaxHistory)

\* jumpTo without setIsPlayerXTurn.
jumpToKeepTurn(step) ==
    /\ stepNumber' = step
    /\ UNCHANGED <<rows, cols, winSeq, mode, history, isPlayerXTurn>>
    /\ lastOp' = Op("jumpTo", FALSE, 0)
    /\ Render(FALSE)

\* jumpTo discarding the entries after the step it jumps to.
jumpToTruncate(step) ==
    /\ stepNumber' = step
    /\ isPlayerXTurn' = (step % 2 = 0)
    /\ history' = SubSeq(history, 1, step + 1)
    /\ UNCHANGED <<rows, cols, winSeq, mode>>
    /\ lastOp' = Op("jumpTo", FALSE, Len(history) - (step + 1))
    /\ Render(FALSE)

\* jumpTo giving the turn to X on the odd steps.
jumpToOddIsX(step) ==
    /\ stepNumber' = step
    /\ isPlayerXTurn' = (step % 2 = 1)
    /\ UNCHANGED <<rows, cols, winSeq, mode, history>>
    /\ lastOp' = Op("jumpTo", FALSE, 0)
    /\ Render(FALSE)

jumpTo(step) ==
    /\ stepNumber' = step
    /\ isPlayerXTurn' = (step % 2 = 0)
    /\ UNCHANGED <<rows, cols, winSeq, mode, history>>
    /\ lastOp' = Op("jumpTo", FALSE, 0)
    /\ Render(FALSE)

\* The callback setting stepNumber to the length of the history it was given
\* instead of incrementing it.
computerMoveStepToLength ==
    /\ LET latestEntry == history[Len(history)]
           emptySquares == {idx \in 0..(Len(latestEntry) - 1) :
                                Get(latestEntry, idx) = Null}
       IN  IF emptySquares # {}
           THEN /\ Len(history) < MaxHistory
                /\ \E randomIndex \in emptySquares :
                       history' = Append(history,
                                         SetSquare(latestEntry, randomIndex, "O"))
                /\ lastOp' = Op("computerMove", TRUE, 0)
           ELSE /\ history' = history
                /\ lastOp' = Op("computerMove", FALSE, 0)
    /\ stepNumber' = Len(history)
    /\ isPlayerXTurn' = TRUE
    /\ UNCHANGED <<rows, cols, winSeq, mode>>
    /\ Render(TRUE)

\* The callback placing its O on the board at the active index instead of
\* the latest entry, and still appending to the whole history.
computerMoveOnCurrent ==
    /\ LET emptySquares == {idx \in 0..(Len(current) - 1) :
                                Get(current, idx) = Null}
       IN  IF emptySquares # {}
           THEN /\ Len(history) < MaxHistory
                /\ \E randomIndex \in emptySquares :
                       history' = Append(history,
                                         SetSquare(current, randomIndex, "O"))
                /\ lastOp' = Op("computerMove", TRUE, 0)
           ELSE /\ history' = history
                /\ lastOp' = Op("computerMove", FALSE, 0)
    /\ stepNumber' = stepNumber + 1
    /\ isPlayerXTurn' = TRUE
    /\ UNCHANGED <<rows, cols, winSeq, mode>>
    /\ Render(TRUE)

\* The callback of the effect's setTimeout, in a model that lets the
\* history grow to maxLen entries.
computerMoveUpTo(maxLen) ==
    /\ LET latestEntry == history[Len(history)]
           emptySquares == {idx \in 0..(Len(latestEntry) - 1) :
                                Get(latestEntry, idx) = Null}
       IN  IF emptySquares # {}
           THEN /\ Len(history) < maxLen
                /\ \E randomIndex \in emptySquares :
                       history' = Append(history,
                                         SetSquare(latestEntry, randomIndex, "O"))
                /\ lastOp' = Op("computerMove", TRUE, 0)
           ELSE /\ history' = history
                /\ lastOp' = Op("computerMove", FALSE, 0)
    /\ stepNumber' = stepNumber + 1
    /\ isPlayerXTurn' = TRUE
    /\ UNCHANGED <<rows, cols, winSeq, mode>>
    /\ Render(TRUE)

computerMove == computerMoveUpTo(MaxHistory)

\* onChange of the three configuration inputs.
setRows(v) ==
    /\ rows' = v
    /\ UNCHANGED <<cols, winSeq, mode, history, stepNumber, isPlayerXTurn, lastOp>>
    /\ Render(FALSE)

setCols(v) ==
    /\ cols' = v
    /\ UNCHANGED <<rows, winSeq, mode, history, stepNumber, isPlayerXTurn, lastOp>>
    /\ Render(FALSE)

setWinSeq(v) ==
    /\ winSeq' = v
    /\ UNCHANGED <<rows, cols, mode, history, stepNumber, isPlayerXTurn, lastOp>>
    /\ Render(FALSE)

----
\* The user's events and the timer.  The handlers exist while the component
\* is mounted.

\* A click on one of the rendered squares.
HandleClick ==
    /\ mounted
    /\ \E i \in RenderedSquares \cap ClickCells : handleClick(i)

\* A click on a rendered square further down the grid.
HandleClickFar ==
    /\ mounted
    /\ \E i \in RenderedSquares \cap FarCells : handleClick(i)

\* A click on one of the buttons of the move list.
JumpTo ==
    /\ mounted
    /\ \E step \in 0..(Len(history) - 1) : jumpTo(step)

\* jumpTo called with a step that is no index of the history: the step
\* before the first entry, or the step after the last.  No button of the
\* move list does this; it is a call by a caller that has lost track of
\* the history.
OutOfRangeSteps == {-1, Len(history)}

JumpToOutOfRange ==
    /\ mounted
    /\ \E step \in OutOfRangeSteps : jumpTo(step)

\* The clicks, one jump and the timer of the long games.
HandleClickLong ==
    /\ mounted
    /\ \E i \in RenderedSquares \cap ClickCells : handleClickUpTo(i, MaxLongHistory)

JumpToLong ==
    /\ mounted
    /\ \E step \in LongJumpSteps \cap (0..(Len(history) - 1)) : jumpTo(step)

ComputerMoveLong ==
    /\ timer
    /\ computerMoveUpTo(MaxLongHistory)

\* The Reset Game button.
ResetGame ==
    /\ mounted
    /\ IF resetThrows
       THEN NoUpdate
       ELSE /\ resetGame
            /\ UNCHANGED <<rows, cols, winSeq, mode>>
            /\ lastOp' = Op("resetGame", FALSE, Len(history) - 1)
            /\ Render(FALSE)

\* The Apply Configuration button.
ApplyConfiguration ==
    /\ mounted
    /\ applyConfiguration

\* Selecting the other radio button.
HandleModeChange ==
    /\ mounted
    /\ \E newMode \in {"single", "multi"} \ {mode} : handleModeChange(newMode)

SetRows ==
    /\ mounted
    /\ \E v \in RowVals \ {rows} : setRows(v)

SetRowsSigned ==
    /\ mounted
    /\ \E v \in RowValsSigned \ {rows} : setRows(v)

SetCols ==
    /\ mounted
    /\ \E v \in ColVals \ {cols} : setCols(v)

SetWinSeq ==
    /\ mounted
    /\ \E v \in WinVals \ {winSeq} : setWinSeq(v)

\* The pending timeout fires.
ComputerMove ==
    /\ timer
    /\ computerMove

\* The state after the first render of <Game /> with the default props.
Init ==
    /\ rows = DEFAULT_NUM_ROWS
    /\ cols = DEFAULT_NUM_COLS
    /\ winSeq = DEFAULT_WIN_CONDITION
    /\ mode = "multi"
    /\ history = <<EmptyBoard(DEFAULT_NUM_ROWS * DEFAULT_NUM_COLS)>>
    /\ stepNumber = 0
    /\ isPlayerXTurn = TRUE
    /\ winner = Null
    /\ isBoardFull = FALSE
    /\ timer = FALSE
    /\ mounted = TRUE
    /\ lastOp = Op("init", FALSE, 0)

\* The game under the configuration it starts with: every event but the
\* edits of the configuration fields.
NextGame ==
    \/ HandleClick
    \/ JumpTo
    \/ ResetGame
    \/ ApplyConfiguration
    \/ HandleModeChange
    \/ ComputerMove

SpecGame == Init /\ [][NextGame]_vars

\* The same, with the timeout firing once it is pending for good.
SpecGameLive == SpecGame /\ WF_vars(ComputerMove)

\* Every event, the edits of the configuration fields included.
Next ==
    \/ HandleClick
    \/ JumpTo
    \/ ResetGame
    \/ ApplyConfiguration
    \/ HandleModeChange
    \/ SetRows
    \/ SetCols
    \/ SetWinSeq
    \/ ComputerMove

Spec == Init /\ [][Next]_vars

\* The game while the Rows field is edited between 3 and a negative number.
NextSigned ==
    \/ HandleClick
    \/ JumpTo
    \/ ResetGame
    \/ ApplyConfiguration
    \/ HandleModeChange
    \/ SetRowsSigned
    \/ ComputerMove

SpecSigned == Init /\ [][NextSigned]_vars

\* The game while the Rows field is edited and squares further down the grid
\* are clicked as well.
NextFar ==
    \/ HandleClick
    \/ HandleClickFar
    \/ JumpTo
    \/ ResetGame
    \/ HandleModeChange
    \/ SetRows
    \/ ComputerMove

SpecFar == Init /\ [][NextFar]_vars

\* The game with jumpTo also called out of range.
NextJump ==
    \/ HandleClick
    \/ JumpTo
    \/ JumpToOutOfRange
    \/ ResetGame
    \/ ApplyConfiguration
    \/ HandleModeChange
    \/ ComputerMove

SpecJump == Init /\ [][NextJump]_vars

\* Long games under the default configuration: the history grows to
\* MaxLongHistory entries, and the only jump is back to the first move.
NextLong ==
    \/ HandleClickLong
    \/ JumpToLong
    \/ HandleModeChange
    \/ ComputerMoveLong

SpecLong == Init /\ [][NextLong]_vars

----
\* The winner detector on arbitrary boards: the component is given any
\* board of a grid shape and any win length, and renders it once.

InitWinner ==
    /\ \E shape \in WinnerShapes :
           /\ rows = shape[1]
           /\ cols = shape[2]
           /\ history \in {<<b>> : b \in [1..(shape[1] * shape[2]) -> {Null, "X", "O"}]}
    /\ winSeq \in 1..MaxWinLength
    /\ mode = "multi"
    /\ stepNumber = 0
    /\ isPlayerXTurn = TRUE
    /\ winner = Null
    /\ isBoardFull = FALSE
    /\ timer = FALSE
    /\ mounted = TRUE
    /\ lastOp = Op("init", FALSE, 0)

RenderBoard ==
    /\ lastOp.op = "init"
    /\ winner' = calculateWinner(current, rows, cols, winSeq)
    /\ isBoardFull' = BoardFull(current)
    /\ lastOp' = Op("render", FALSE, 0)
    /\ UNCHANGED <<rows, cols, winSeq, mode, history, stepNumber, isPlayerXTurn,
                   timer, mounted>>

SpecWinner == InitWinner /\ [][RenderBoard]_vars

----
\* Properties.

\* C1: a click handled by handleClick(i) leaves history, stepNumber, the
\* turn flag, the mode and the pending timer unchanged whenever the current
\* board has a winner, the current board is full, square i is occupied, or
\* the mode is single-player and it is O's turn.
ClickIsToBeIgnored(i) ==
    \/ Truthy(winner)
    \/ isBoardFull
    \/ Truthy(Get(current, i))
    \/ (mode = "single" /\ ~isPlayerXTurn)

C1_IllegalClickIgnored ==
    [][\A i \in RenderedSquares \cap ClickCells :
           (mounted /\ ClickIsToBeIgnored(i) /\ handleClick(i))
               => UNCHANGED <<history, stepNumber, isPlayerXTurn, mode, timer>>]_vars

\* C2: an accepted human move at active index k (in particular after
\* jumpTo(k)) yields a history of length k + 2 whose first k + 1 entries are
\* the original first k + 1 entries, whose last entry is board k with the
\* mover's mark in the clicked square and every other square as it was, and
\* whose active index is k + 1.
C2_BranchAndOverwrite ==
    [][\A i \in RenderedSquares \cap ClickCells :
           (mounted /\ handleClick(i) /\ history' # history)
               => LET k == stepNumber
                      mark == IF isPlayerXTurn THEN "X" ELSE "O"
                      newBoard == history'[Len(history')]
                      longest == IF Len(newBoard) > Len(current)
                                 THEN Len(newBoard) ELSE Len(current)
                  IN  /\ Len(history') = k + 2
                      /\ \A j \in 1..(k + 1) : history'[j] = history[j]
                      /\ Get(newBoard, i) = mark
                      /\ \A j \in (0..(longest - 1)) \ {i} :
                             Get(newBoard, j) = Get(current, j)
                      /\ stepNumber' = k + 1]_vars

\* C2 witness: the last update was an accepted click that discarded entries.
C2_Witness ==
    /\ lastOp.op = "handleClick"
    /\ lastOp.dropped > 0
    /\ Len(history) >= 3

\* C3: on a board of Empty/X/O cells, calculateWinner returns the mark of the
\* first cell in row-major order from which winLength consecutive in-bounds
\* cells along right, down, down-right or down-left all hold that cell's
\* mark, and no winner exactly when there is no such cell.
CellAt(b, nc, r, c) == b[r * nc + c + 1]

LineDirections == {<<0, 1>>, <<1, 0>>, <<1, 1>>, <<1, -1>>}

IsWinningOrigin(b, nr, nc, len, r, c) ==
    /\ CellAt(b, nc, r, c) \in Marks
    /\ \E d \in LineDirections :
           \A k \in 0..(len - 1) :
               /\ r + k * d[1] \in 0..(nr - 1)
               /\ c + k * d[2] \in 0..(nc - 1)
               /\ CellAt(b, nc, r + k * d[1], c + k * d[2]) = CellAt(b, nc, r, c)

WinningOrigins(b, nr, nc, len) ==
    {p \in (0..(nr - 1)) \X (0..(nc - 1)) : IsWinningOrigin(b, nr, nc, len, p[1], p[2])}

RowMajorBefore(p, q) == p[1] < q[1] \/ (p[1] = q[1] /\ p[2] <= q[2])

ExpectedWinner(b, nr, nc, len) ==
    LET origins == WinningOrigins(b, nr, nc, len)
    IN  IF origins = {} THEN Null
        ELSE LET first == CHOOSE p \in origins : \A q \in origins : RowMajorBefore(p, q)
             IN  CellAt(b, nc, first[1], first[2])

C3_WinnerIsFirstOrigin ==
    lastOp.op = "render" => winner = ExpectedWinner(current, rows, cols, winSeq)

\* C3 witness: a 3x3 board whose first marked cell holds X, where X has no
\* line and O wins.
C3_Witness ==
    /\ lastOp.op = "render"
    /\ rows = 3 /\ cols = 3 /\ winSeq = 3
    /\ Get(current, 0) = "X"
    /\ winner = "O"

\* C4: in multiplayer and in single-player mode alike, the turn flag says X
\* is to move exactly when stepNumber is even.
C4_TurnParity == isPlayerXTurn <=> (stepNumber % 2 = 0)

\* C4 witness: single-player mode, after the computer's timer fired on a
\* rewound history.
C4_Witness ==
    /\ mode = "single"
    /\ lastOp.op = "computerMove"
    /\ stepNumber + 1 < Len(history)

\* C5: the history is never empty, its entry 0 is the all-empty board, and
\* stepNumber is an index of the history.
C5_ActiveIndexValid ==
    /\ Len(history) >= 1
    /\ \A k \in 1..Len(history[1]) : history[1][k] = Null
    /\ stepNumber >= 0
    /\ stepNumber <= Len(history) - 1

\* C5 witness: the timer fired when the latest board had no empty square, so
\* stepNumber was incremented and no entry was appended.
C5_Witness ==
    /\ lastOp = Op("computerMove", FALSE, 0)
    /\ stepNumber >= 1

\* C6: in single-player mode, once jumpTo has landed on a position with no
\* winner and an empty square where it is O's turn, the history and the
\* active index change next only by an accepted human move or a reset (no
\* computer move is applied).  Stated for a jump back to an earlier entry.
C6_NoComputerMoveOnBrowse ==
    [][(/\ lastOp.op = "jumpTo"
        /\ stepNumber < Len(history) - 1
        /\ mode = "single"
        /\ ~isPlayerXTurn
        /\ ~Truthy(winner)
        /\ ~isBoardFull)
           => \/ (history' = history /\ stepNumber' = stepNumber)
              \/ lastOp'.op \in {"handleClick", "resetGame", "handleModeChange",
                                 "applyConfiguration", "jumpTo"}]_vars

\* C7: when the timer fires, the board at the active index gets O in one of
\* its empty squares, the entries after the active index are discarded, the
\* new board is appended, the active index becomes the index of the new last
\* entry, and the turn returns to X.
C7_ComputerMoveLikeHumanMove ==
    [][ComputerMove
           => /\ \E idx \in 0..(Len(current) - 1) :
                     /\ Get(current, idx) = Null
                     /\ history' = Append(SubSeq(history, 1, stepNumber + 1),
                                          SetSquare(current, idx, "O"))
              /\ stepNumber' = Len(history') - 1
              /\ isPlayerXTurn' = TRUE]_vars

\* C8: in single-player mode, after an accepted human move that leaves no
\* winner and an empty square, a computer move placing O is eventually
\* applied and the turn returns to X, unless a reset, a mode change, an
\* apply or a jump comes first.  (The model lets the history grow to
\* MaxHistory entries, so the claim is stated for shorter histories.)
C8_HumanMoveLeadsToComputerMove ==
    (/\ lastOp.op = "handleClick"
     /\ mode = "single"
     /\ ~Truthy(winner)
     /\ ~isBoardFull
     /\ Len(history) < MaxHistory)
        ~> (\/ (/\ lastOp = Op("computerMove", TRUE, 0)
                /\ isPlayerXTurn
                /\ \E k \in 1..Len(history[Len(history)]) :
                       history[Len(history)][k] = "O")
            \/ lastOp.op \in {"resetGame", "handleModeChange",
                              "applyConfiguration", "jumpTo"})

\* C8 witness: single-player mode, the computer has answered a human move
\* at the end of the history.
C8_Witness ==
    /\ mode = "single"
    /\ lastOp = Op("computerMove", TRUE, 0)
    /\ stepNumber = Len(history) - 1
    /\ stepNumber = 2

\* C9: the rows, cols and win length used for win detection, status and the
\* board's dimensions always satisfy rows >= 3, cols >= 3 and
\* 3 <= winLength <= min(rows, cols).
C9_ConfigurationInEffectValid ==
    /\ rows >= 3
    /\ cols >= 3
    /\ winSeq >= 3
    /\ winSeq <= rows
    /\ winSeq <= cols

\* C10: applyConfiguration resets the game if and only if rows >= 3,
\* cols >= 3, winSeq >= 3, winSeq <= rows and winSeq <= cols; otherwise the
\* list of validation errors is not empty and history, stepNumber, the turn
\* flag and the mode are unchanged.  The list holds the rows message exactly
\* when rows < 3, the columns message exactly when cols < 3, the win-length
\* message exactly when winSeq < 3, and the dimensions message exactly when
\* winSeq exceeds rows or cols.
ConfigurationValid ==
    /\ rows >= 3
    /\ cols >= 3
    /\ winSeq >= 3
    /\ winSeq <= rows
    /\ winSeq <= cols

Holds(messages, message) == \E k \in 1..Len(messages) : messages[k] = message

MessagesMatchBounds ==
    /\ Len(validationErrors) > 0 <=> ~ConfigurationValid
    /\ Holds(validationErrors, "Rows must be at least 3.") <=> rows < 3
    /\ Holds(validationErrors, "Columns must be at least 3.") <=> cols < 3
    /\ Holds(validationErrors, "Winning sequence must be at least 3.")
           <=> winSeq < 3
    /\ Holds(validationErrors, "Winning sequence cannot exceed board dimensions.")
           <=> (winSeq > rows \/ winSeq > cols)

C10_ApplyIffValid ==
    /\ []MessagesMatchBounds
    /\ [][(mounted /\ applyConfiguration)
             => /\ ConfigurationValid
                    => /\ history' = <<[k \in 1..(rows * cols) |-> Null]>>
                       /\ stepNumber' = 0
                       /\ isPlayerXTurn' = TRUE
                       /\ mode' = mode
                /\ ~ConfigurationValid
                    => UNCHANGED <<history, stepNumber, isPlayerXTurn, mode>>]_vars

\* C10 witness: an apply has reset a game in progress, and the fields now
\* hold a configuration for which apply is rejected.
C10_Witness ==
    /\ lastOp.op = "applyConfiguration"
    /\ lastOp.dropped > 0
    /\ Len(validationErrors) > 0

\* C11: after a mode change, a Reset Game, or an apply of a valid
\* configuration, the history is exactly one all-empty board of rows x cols
\* cells, stepNumber is 0 and it is X's turn; the mode is the newly selected
\* one after a mode change and unchanged after a reset or an apply.
FreshGame ==
    /\ Len(history) = 1
    /\ Len(history[1]) = rows * cols
    /\ \A k \in 1..Len(history[1]) : history[1][k] = Null
    /\ stepNumber = 0
    /\ isPlayerXTurn

C11_ResetGivesFreshGame ==
    [][/\ (ResetGame \/ (ApplyConfiguration /\ ConfigurationValid))
           => (FreshGame' /\ mode' = mode)
       /\ \A newMode \in {"single", "multi"} \ {mode} :
              (mounted /\ handleModeChange(newMode))
                  => (FreshGame' /\ mode' = newMode)]_vars

\* C12: the status of the current board is the win of M exactly when
\* calculateWinner returns M for it, the tie exactly when every cell of the
\* board is occupied and calculateWinner returns no winner, and otherwise
\* names the player the turn flag gives; a full board with a winning line is
\* a win.
EveryCellOccupied(squares) ==
    \A idx \in 0..(Len(squares) - 1) : Get(squares, idx) \in Marks

InProgressStatus ==
    IF isPlayerXTurn
    THEN {<<"Your turn (X)">>, <<"Next player: ", "X">>}
    ELSE {<<"Computer's turn (O)">>, <<"Next player: ", "O">>}

C12_StatusMatchesBoard ==
    mounted =>
        LET won == calculateWinner(current, rows, cols, winSeq)
        IN  /\ \A M \in Marks : (status = <<"Winner: ", M>>) <=> (won = M)
            /\ (status = <<"It's a tie!">>)
                   <=> (EveryCellOccupied(current) /\ won = Null)
            /\ (won = Null /\ ~EveryCellOccupied(current))
                   => status \in InProgressStatus

\* C13: in every reachable state, jumpTo(stepNumber) leaves history,
\* stepNumber, the turn flag, the mode and the presence of a pending timer
\* unchanged.
C13_JumpToCurrentIdempotent ==
    [][(mounted /\ jumpTo(stepNumber))
           => UNCHANGED <<history, stepNumber, isPlayerXTurn, mode, timer>>]_vars

\* C13 witness: single-player mode, a jump has left the game at the end of
\* the history on O's turn with the timer pending, as a jump to the current
\* position does after a human move.
C13_Witness ==
    /\ lastOp.op = "jumpTo"
    /\ mode = "single"
    /\ stepNumber = Len(history) - 1
    /\ ~isPlayerXTurn
    /\ timer

\* C14: for every board and every win length up to min(rows, cols),
\* calculateWinner returns the same result on the board and on each of its
\* images under the reflections and rotations that keep the grid's shape:
\* horizontal flip, vertical flip and half turn on any grid, transposition
\* and quarter turns on a square grid.
FlipHorizontal(b, nr, nc) ==
    [k \in 1..(nr * nc) |-> CellAt(b, nc, (k - 1) \div nc, nc - 1 - ((k - 1) % nc))]

FlipVertical(b, nr, nc) ==
    [k \in 1..(nr * nc) |-> CellAt(b, nc, nr - 1 - ((k - 1) \div nc), (k - 1) % nc)]

HalfTurn(b, nr, nc) == FlipVertical(FlipHorizontal(b, nr, nc), nr, nc)

\* On a square grid (nr = nc).
Transpose(b, nr, nc) ==
    [k \in 1..(nr * nc) |-> CellAt(b, nc, (k - 1) % nc, (k - 1) \div nc)]

QuarterTurn(b, nr, nc) == FlipHorizontal(Transpose(b, nr, nc), nr, nc)

QuarterTurnBack(b, nr, nc) == FlipVertical(Transpose(b, nr, nc), nr, nc)

SymmetricImages(b, nr, nc) ==
    {FlipHorizontal(b, nr, nc), FlipVertical(b, nr, nc), HalfTurn(b, nr, nc)}
    \cup (IF nr = nc
          THEN {Transpose(b, nr, nc), QuarterTurn(b, nr, nc), QuarterTurnBack(b, nr, nc)}
          ELSE {})

WinLengthFits == winSeq <= rows /\ winSeq <= cols

C14_WinnerSymmetric ==
    (lastOp.op = "render" /\ WinLengthFits)
        => \A image \in SymmetricImages(current, rows, cols) :
               calculateWinner(image, rows, cols, winSeq) = winner

\* C14, amended: calculateWinner reports a winner on a symmetric image
\* exactly when it reports one on the board, and the same mark whenever at
\* most one mark has a winning line on the board.
MarksWithLine(b, nr, nc, len) ==
    {CellAt(b, nc, p[1], p[2]) : p \in WinningOrigins(b, nr, nc, len)}

C14_WinnerSymmetricOneMark ==
    (lastOp.op = "render" /\ WinLengthFits)
        => \A image \in SymmetricImages(current, rows, cols) :
               LET imageWinner == calculateWinner(image, rows, cols, winSeq)
               IN  /\ (imageWinner = Null) <=> (winner = Null)
                   /\ Cardinality(MarksWithLine(current, rows, cols, winSeq)) <= 1
                          => imageWinner = winner

\* C14 witness: a rendered 3x3 board that is none of its own images, where
\* only X has a line of 3.
C14_Witness ==
    /\ lastOp.op = "render"
    /\ rows = 3 /\ cols = 3 /\ winSeq = 3
    /\ winner = "X"
    /\ MarksWithLine(current, rows, cols, winSeq) = {"X"}
    /\ current \notin SymmetricImages(current, rows, cols)

\* C15: jumpTo(n) with n outside 0..history.length - 1 is rejected: it
\* leaves stepNumber, the turn flag and the history unchanged, the active
\* index stays an index of the history and the game remains usable (the
\* component stays mounted).
C15_JumpOutOfRangeRejected ==
    [][\A step \in OutOfRangeSteps :
           (mounted /\ jumpTo(step))
               => /\ UNCHANGED <<stepNumber, isPlayerXTurn, history>>
                  /\ stepNumber' \in 0..(Len(history') - 1)
                  /\ mounted']_vars

\* C16: a click on a square whose index is outside 0..length - 1 of the
\* current board is not applied: the history (its entries and the length
\* of each board), stepNumber and the turn flag are unchanged.
C16_OutOfRangeClickNotApplied ==
    [][\A i \in RenderedSquares \cap (ClickCells \cup FarCells) :
           (mounted /\ i \notin 0..(Len(current) - 1) /\ handleClick(i))
               => UNCHANGED <<history, stepNumber, isPlayerXTurn>>]_vars

\* C17: in every reachable multiplayer state, for every index i of the
\* history, entry i holds exactly ceil(i/2) X marks and floor(i/2) O marks.
CountMark(squares, mark) ==
    Cardinality({k \in 1..Len(squares) : squares[k] = mark})

C17_MultiplayerMarksAlternate ==
    mode = "multi"
        => \A i \in 0..(Len(history) - 1) :
               /\ CountMark(history[i + 1], "X") = (i + 1) \div 2
               /\ CountMark(history[i + 1], "O") = i \div 2

\* C18: a timer is pending only while the game awaits the computer's move
\* (single-player mode, O's turn, the current board has no winner and is not
\* full), so every transition out of that state cancels it and no timer
\* fires in any other state.
AwaitingComputerMove ==
    /\ mode = "single"
    /\ ~isPlayerXTurn
    /\ calculateWinner(current, rows, cols, winSeq) = Null
    /\ ~EveryCellOccupied(current)

C19_JumpChangesOnlyIndexAndTurn ==
    [][\A n \in 0..(Len(history) - 1) :
           (mounted /\ jumpTo(n))
               => /\ stepNumber' = n
                  /\ isPlayerXTurn' = (n % 2 = 0)
                  /\ UNCHANGED <<history, mode, rows, cols, winSeq>>]_vars

\* C19 witness: a jump has gone back by two entries or more, and the
\* entries after the active one are still in the history.
C19_Witness ==
    /\ lastOp.op = "jumpTo"
    /\ Len(history) >= 4
    /\ stepNumber <= Len(history) - 3

\* C20: for every index i >= 1 of the history, entry i differs from entry
\* i - 1 in exactly one cell, which is empty in entry i - 1 and holds a mark
\* in entry i; entry i holds exactly i marks, and the history has at most
\* rows * cols + 1 entries.
OneMoreMark(before, after) ==
    /\ Len(after) = Len(before)
    /\ \E k \in 1..Len(after) :
           /\ before[k] = Null
           /\ after[k] \in Marks
           /\ \A j \in (1..Len(after)) \ {k} : after[j] = before[j]

C20_EntriesAddOneMark ==
    /\ \A i \in 1..(Len(history) - 1) :
           /\ OneMoreMark(history[i], history[i + 1])
           /\ CountMark(history[i + 1], "X") + CountMark(history[i + 1], "O") = i
    /\ Len(history) <= rows * cols + 1

\* C20 witness: single-player mode, the timer has fired on a rewound
\* history and appended a fourth entry while the active index is 2.
C20_Witness ==
    /\ mode = "single"
    /\ lastOp = Op("computerMove", TRUE, 0)
    /\ Len(history) = 4
    /\ stepNumber = 2

\* C21: in every reachable state, every board stored in the history has
\* exactly rows x cols cells, for the rows and cols the render passes to the
\* Board and to calculateWinner.
C21_BoardsHaveGridSize ==
    \A i \in 1..Len(history) : Len(history[i]) = rows * cols

\* C22: when the win length is greater than numRows or greater than
\* numCols, calculateWinner reports no winner for every board of that shape.
C22_NoWinnerWhenTooLongForOne ==
    (lastOp.op = "render" /\ (winSeq > rows \/ winSeq > cols)) => winner = Null

\* C22, amended: when the win length is greater than numRows and greater
\* than numCols, calculateWinner reports no winner for every board of that
\* shape.
C22_NoWinnerWhenTooLongForBoth ==
    (lastOp.op = "render" /\ winSeq > rows /\ winSeq > cols) => winner = Null

\* C22 witness: a rendered 2x2 board full of X with win length 3.
C22_Witness ==
    /\ lastOp.op = "render"
    /\ rows = 2 /\ cols = 2 /\ winSeq = 3
    /\ \A idx \in 0..3 : Get(current, idx) = "X"

\* C23: with the configuration held fixed, for every index i >= 1 of the
\* history, entry i - 1 has no winner: no human move and no computer move
\* extends a board that has a winner.
C23_NoMoveOnWonBoard ==
    \A i \in 1..(Len(history) - 1) :
        calculateWinner(history[i], rows, cols, winSeq) = Null

====
